---------------------------- MODULE Spec2Model ----------------------------
(***************************************************************************)
(* A model of the site crawler of seo_fixer (src/lib/supabase.js, the      *)
(* crawler.js part): URL normalisation and classification, link            *)
(* extraction, the bounded concurrency runner, breadth-first discovery,    *)
(* site aggregation and crawlSite.                                         *)
(*                                                                         *)
(* A URL string is modelled by its syntax: a record of scheme, host (a     *)
(* sequence of labels, case kept), path (the sequence of segments between  *)
(* the slashes: "/" is <<"">>, "/a/" is <<"a", "">>, "/a//" is             *)
(* <<"a", "", "">>), query (the sequence of parameter names) and fragment. *)
(* A string with no scheme ("example.com/a") is one new URL() rejects.     *)
(***************************************************************************)
EXTENDS Integers, Sequences, FiniteSets, TLC

(***************************************************************************)
(* Bounds of the model.  MAX_PAGES and CONCURRENCY are the program's       *)
(* constants (200 and 3 in the source), scaled down so that the page limit *)
(* is hit and several batches are formed on small sites.                   *)
(***************************************************************************)
MAX_PAGES == 4
CONCURRENCY == 2
MaxPathLen == 3
MaxItems == 3
MaxLimit == 3
MaxAggPages == 3

Undefined == "undefined"

Last(s) == s[Len(s)]
Front(s) == SubSeq(s, 1, Len(s) - 1)
Range(s) == {s[i] : i \in 1..Len(s)}
Min(a, b) == IF a < b THEN a ELSE b
Max(a, b) == IF a > b THEN a ELSE b

---------------------------------------------------------------------------
(* URL strings *)

MkUrl(s, h, p, q, f) == [scheme |-> s, host |-> h, path |-> p, query |-> q, frag |-> f]

EX == <<"example", "com">>
EXU == <<"EXAMPLE", "com">>
WWW == <<"www", "example", "com">>
BLOG == <<"blog", "example", "com">>
OTHERCOM == <<"other", "com">>
BADEX == <<"badexample", "com">>

SKIP_EXTENSIONS ==
  {".jpg", ".jpeg", ".png", ".gif", ".webp", ".svg", ".ico", ".pdf", ".zip",
   ".tar", ".gz", ".mp4", ".mp3", ".wav", ".ogg", ".woff", ".woff2", ".ttf",
   ".eot", ".css", ".js", ".json", ".xml", ".map", ".ts"}

\* The first path segment of each skipped prefix: "/api/" is <<"api", ...>>
\* with at least one more segment after it.
SKIP_PATHS == {"cdn-cgi", "wp-json", "api", "_next", "static", ".well-known"}

trackingParams ==
  {"utm_source", "utm_medium", "utm_campaign", "utm_term", "utm_content",
   "ref", "fbclid", "gclid"}

\* String.prototype.toLowerCase on a host label.
LowerLabel(l) == IF l = "EXAMPLE" THEN "example" ELSE l
toLowerCase(h) == [i \in 1..Len(h) |-> LowerLabel(h[i])]

\* A host new URL() accepts: not empty, no forbidden code point in a label.
ValidHost(h) == h # <<>> /\ \A i \in 1..Len(h) : h[i] \notin {"", "exa mple"}

\* new URL(url) throws on a string that is not an absolute URL or whose
\* host is invalid.
CanParse(url) == url.scheme # "" /\ ValidHost(url.host)

\* new URL(url): the parser lower-cases the host; the other components
\* are kept.
URLParse(url) == [url EXCEPT !.host = toLowerCase(url.host)]

\* pathname.length > 1: every path but "/".
PathLongerThanOne(p) == p # <<"">>

\* pathname.endsWith('/')
PathEndsWithSlash(p) == Last(p) = ""

\* pathname.slice(0, -1) of a path that ends with a slash.
PathSliceLast(p) == Front(p)

normalizeUrl(url) ==
  IF ~CanParse(url) THEN url
  ELSE LET u0 == URLParse(url)
           \* u.hash = ''
           u1 == [u0 EXCEPT !.frag = ""]
           \* trackingParams.forEach(p => u.searchParams.delete(p))
           u2 == [u1 EXCEPT !.query = SelectSeq(u1.query, LAMBDA p : p \notin trackingParams)]
           \* u.hostname = u.hostname.toLowerCase()
           u3 == [u2 EXCEPT !.host = toLowerCase(u2.host)]
           \* one trailing slash removed, unless the path is "/"
           u4 == IF PathLongerThanOne(u3.path) /\ PathEndsWithSlash(u3.path)
                 THEN [u3 EXCEPT !.path = PathSliceLast(u3.path)]
                 ELSE u3
       IN u4

\* host.replace(/^www\./, '')
StripWww(h) == IF Len(h) > 1 /\ h[1] = "www" THEN Tail(h) ELSE h

\* host.endsWith('.' + base): base is a proper suffix of the labels of host.
HostEndsWithDot(h, b) ==
  /\ Len(h) > Len(b)
  /\ SubSeq(h, Len(h) - Len(b) + 1, Len(h)) = b

isSameDomain(url, baseDomain) ==
  IF ~CanParse(url) THEN FALSE
  ELSE LET host == StripWww(toLowerCase(URLParse(url).host))
           base == StripWww(toLowerCase(baseDomain))
       IN host = base \/ HostEndsWithDot(host, base)

\* The part of a segment from its last '.', or "" when it has none.
DotSuffix(seg) ==
  CASE seg = "logo.png" -> ".png"
    [] seg = "feed.xml" -> ".xml"
    [] seg = "v1.0" -> ".0"
    [] seg = ".well-known" -> ".well-known"
    [] OTHER -> ""

\* path.substring(path.lastIndexOf('.')): when the last '.' is in the last
\* segment it is that segment's suffix; otherwise the string holds a '/'
\* (or is the whole path) and is no member of SKIP_EXTENSIONS, written "".
PathExt(p) == DotSuffix(Last(p))

\* path.startsWith(prefix) for a prefix "/x/" of SKIP_PATHS.
PathStartsWithSkipPrefix(p) == Len(p) >= 2 /\ p[1] \in SKIP_PATHS

shouldSkipUrl(url) ==
  IF ~CanParse(url) THEN TRUE
  ELSE LET path == URLParse(url).path
       IN \/ PathExt(path) \in SKIP_EXTENSIONS
          \/ PathStartsWithSkipPrefix(path)
          \/ url.scheme \notin {"http", "https"}

---------------------------------------------------------------------------
(* Link extraction *)

\* An href of a page: an absolute URL, a root-relative reference (no scheme,
\* no host), a fragment-only reference (no path either) or a mailto:,
\* tel: or javascript: target.
Rel(p) == MkUrl("", <<>>, p, <<>>, "")
RelQF(p, q, f) == MkUrl("", <<>>, p, q, f)
Abs(h, p) == MkUrl("https", h, p, <<>>, "")

\* Line 161 and 168: the hrefs the scan passes over.
IgnoredHref(h) ==
  \/ (h.scheme = "" /\ h.path = <<>>)
  \/ h.scheme \in {"javascript", "mailto", "tel"}

\* new URL(href, pageUrl) can be built.
CanResolve(h, pageUrl) == IF h.scheme = "" THEN CanParse(pageUrl) ELSE CanParse(h)

\* new URL(href, pageUrl).toString()
Resolve(h, pageUrl) ==
  IF h.scheme = ""
  THEN LET b == URLParse(pageUrl)
       IN MkUrl(b.scheme, b.host, h.path, h.query, h.frag)
  ELSE URLParse(h)

\* links.add(x) on a Set that keeps insertion order.
SetAdd(seq, x) == IF x \in Range(seq) THEN seq ELSE Append(seq, x)

RECURSIVE ExtractFrom(_, _, _, _)
ExtractFrom(hrefs, pageUrl, baseDomain, links) ==
  IF hrefs = <<>> THEN links
  ELSE LET h == Head(hrefs)
           normalized == normalizeUrl(Resolve(h, pageUrl))
           keep == /\ ~IgnoredHref(h)
                   /\ CanResolve(h, pageUrl)
                   /\ isSameDomain(normalized, baseDomain)
                   /\ ~shouldSkipUrl(normalized)
       IN ExtractFrom(Tail(hrefs), pageUrl, baseDomain,
                      IF keep THEN SetAdd(links, normalized) ELSE links)

extractInternalLinks(html, pageUrl, baseDomain) ==
  ExtractFrom(html, pageUrl, baseDomain, <<>>)

---------------------------------------------------------------------------
(* The sites crawled: what the server answers to a fetch of each URL.      *)
(* kind is "html", "nonhtml" (another content type), "error" (a network    *)
(* failure or a timeout) or "stalled" (the headers of an HTML page arrive  *)
(* and its body never ends); final is response.url, the URL after          *)
(* redirects; html is the sequence of the hrefs of the page's anchors.     *)

Resp(k, f, h) == [kind |-> k, final |-> f, html |-> h]
Failed(u) == Resp("error", u, <<>>)

\* A small site: the homepage links to /a, to /api/ (a dead link) and to
\* another domain, among targets the extractor drops; "/a/" is served
\* like "/a".
SiteA(u) ==
  CASE u.host \in {EX, WWW} /\ u.path = <<"">> ->
         Resp("html", u, << Rel(<<"a">>), Abs(OTHERCOM, <<"x">>),
                            RelQF(<<"a", "">>, <<"ref">>, "top"),
                            MkUrl("mailto", <<>>, <<"x">>, <<>>, ""),
                            RelQF(<<>>, <<>>, "top"),
                            Rel(<<"logo.png">>), Rel(<<"api", "x">>),
                            Rel(<<"api", "">>), Abs(BADEX, <<"">>),
                            MkUrl("ftp", EX, <<"a">>, <<>>, "") >>)
    [] u.host = EX /\ u.path \in {<<"a">>, <<"a", "">>} ->
         Resp("html", u, << Rel(<<"">>), Rel(<<"a">>) >>)
    [] u.host = EX /\ u.path = <<"logo.png">> -> Resp("nonhtml", u, <<>>)
    [] OTHER -> Failed(u)

\* A site with more pages than the page limit; "/a/" is a directory index
\* that differs from the page "/a".
SiteB(u) ==
  CASE u.host = EX /\ u.path = <<"">> ->
         Resp("html", u, << Rel(<<"a">>), Rel(<<"b">>), Rel(<<"c">>), Rel(<<"d">>) >>)
    [] u.host = EX /\ u.path = <<"a", "">> ->
         Resp("html", u, << Rel(<<"a">>), Rel(<<"h">>) >>)
    [] u.host = EX /\ u.path = <<"h">> -> Resp("html", u, <<>>)
    [] u.host = EX /\ u.path = <<"a">> ->
         Resp("html", u, << Rel(<<"c">>), Rel(<<"d">>), Rel(<<"e">>), Rel(<<"f">>) >>)
    [] u.host = EX /\ u.path = <<"b">> -> Resp("html", u, << Rel(<<"">>) >>)
    [] u.host = EX /\ u.path = <<"c">> -> Resp("html", u, << Rel(<<"g">>), Rel(<<"a">>) >>)
    [] u.host = EX /\ u.path \in {<<"d">>, <<"e">>, <<"f">>, <<"g">>} ->
         Resp("html", u, << Rel(<<"">>) >>)
    [] OTHER -> Failed(u)

\* A site whose homepage redirects to www, with a page of another content
\* type and a subdomain that redirects to another domain.
SiteC(u) ==
  CASE u.host = EX /\ u.path = <<"">> ->
         Resp("html", Abs(WWW, <<"">>),
              << Rel(<<"a">>), Abs(BLOG, <<"">>) >>)
    [] u.host = WWW /\ u.path = <<"a">> ->
         Resp("nonhtml", u, << Rel(<<"c">>) >>)
    [] u.host = BLOG /\ u.path = <<"">> ->
         Resp("html", Abs(OTHERCOM, <<"">>), << Abs(EX, <<"c">>) >>)
    [] OTHER -> Failed(u)

\* A site whose second level is fetched as one batch, each page of it
\* linking to pages not seen before.
SiteD(u) ==
  CASE u.host = EX /\ u.path = <<"">> ->
         Resp("html", u, << Rel(<<"x">>), Rel(<<"y">>) >>)
    [] u.host = EX /\ u.path = <<"x">> ->
         Resp("html", u, << Rel(<<"z">>), Rel(<<"">>) >>)
    [] u.host = EX /\ u.path = <<"y">> ->
         Resp("html", u, << Rel(<<"w">>), Rel(<<"z">>) >>)
    [] u.host = EX /\ u.path \in {<<"z">>, <<"w">>} -> Resp("html", u, <<>>)
    [] OTHER -> Failed(u)

\* A site with a page whose headers arrive in time and whose body never
\* ends, and a page that never answers: its fetch is aborted by the timer.
SiteE(u) ==
  CASE u.host = EX /\ u.path = <<"">> ->
         Resp("html", u, << Rel(<<"slow">>), Rel(<<"drip">>) >>)
    [] u.host = EX /\ u.path = <<"drip">> -> Resp("stalled", u, <<>>)
    [] OTHER -> Failed(u)

Sites == {"A", "B", "C", "D"}

\* The sites, with the one that does not finish a body.
StallSites == Sites \cup {"E"}

SiteResponse(s, u) ==
  CASE s = "A" -> SiteA(u)
    [] s = "B" -> SiteB(u)
    [] s = "C" -> SiteC(u)
    [] s = "D" -> SiteD(u)
    [] OTHER -> SiteE(u)


---------------------------------------------------------------------------
(* JavaScript values of page results *)

Num(n) == [tag |-> "number", n |-> n]
Null == [tag |-> "null", n |-> 0]
Undef == [tag |-> "undefined", n |-> 0]
NaN == [tag |-> "NaN", n |-> 0]

Counts(c, w, i, t) == [defined |-> TRUE, critical |-> c, warning |-> w, info |-> i, total |-> t]
NoCounts == [defined |-> FALSE, critical |-> 0, warning |-> 0, info |-> 0, total |-> 0]

\* !x for a property that holds a string or is undefined.
Falsy(x) == x \in {Undefined, ""}

\* An object of the shape auditUrl returns on success, with its url.
PageOk(url, score, counts, issues) ==
  [t |-> "object", url |-> url, error |-> Undefined, score |-> score,
   counts |-> counts, issues |-> issues]

\* { error, url }: the shape of a failed audit, with its url.
PageErr(url, msg) ==
  [t |-> "object", url |-> url, error |-> msg, score |-> Undef,
   counts |-> NoCounts, issues |-> <<>>]

NoUrl == MkUrl("", <<>>, <<>>, <<>>, "")

\* { error: err.message }, the object the runner stores for a thrown error.
ErrorEntry(msg) == PageErr(NoUrl, msg)

\* A slot of new Array(n) that was never assigned.
EmptySlot ==
  [t |-> "empty", url |-> NoUrl, error |-> Undefined, score |-> Undef,
   counts |-> NoCounts, issues |-> <<>>]

\* What a call of fn does: it returns v, or it throws v.  A thrown value is
\* null or undefined (nullish), or has a message property (a string, or
\* undefined when the value is no Error).
Return(v) == [t |-> "return", v |-> v, thrown |-> [nullish |-> FALSE, message |-> Undefined]]
Throw(x) == [t |-> "throw", v |-> EmptySlot, thrown |-> x]
NoOutcome == [t |-> "none", v |-> EmptySlot, thrown |-> [nullish |-> FALSE, message |-> Undefined]]
ErrorObj(m) == [nullish |-> FALSE, message |-> m]
NonError == [nullish |-> FALSE, message |-> Undefined]
Nullish == [nullish |-> TRUE, message |-> Undefined]

---------------------------------------------------------------------------
(* The auditor, a collaborator: what auditUrl does on each URL under each  *)
(* plan of the environment.                                                *)

Issue(type, severity) == [type |-> type, severity |-> severity]

AuditFine(u) ==
  CASE u.path = <<"">> -> PageOk(u, Num(100), Counts(0, 0, 0, 0), <<>>)
    [] u.path = <<"a">> ->
         PageOk(u, Num(50), Counts(2, 1, 0, 3),
                << Issue("missing_title", "critical"), Issue("missing_h1", "critical"),
                   Issue("missing_og", "warning") >>)
    [] u.path = <<"b">> ->
         PageOk(u, Null, Counts(0, 1, 0, 1), << Issue("js_rendered_page", "warning") >>)
    [] OTHER ->
         PageOk(u, Num(85), Counts(0, 1, 1, 2),
                << Issue("missing_og", "warning"), Issue("missing_schema", "info") >>)

AuditReturnsError(u) == PageErr(u, "The page returned an HTTP 404 error.")

Plans == {"fine", "mixed", "allfail", "emptymsg", "nonerror", "nullish"}

\* The outcome of auditUrl(u) under a plan: under every plan but "fine" and
\* "allfail" the page /a misbehaves in the plan's way.
AuditOutcome(plan, u) ==
  CASE plan = "fine" -> Return(AuditFine(u))
    [] plan = "allfail" -> Return(AuditReturnsError(u))
    [] plan = "mixed" /\ u.path = <<"a">> -> Return(AuditReturnsError(u))
    [] plan = "mixed" /\ u.path = <<"b">> -> Throw(ErrorObj("Invalid regular expression"))
    [] plan = "emptymsg" /\ u.path = <<"a">> -> Throw(ErrorObj(""))
    [] plan = "nonerror" /\ u.path = <<"a">> -> Throw(NonError)
    [] plan = "nullish" /\ u.path = <<"a">> -> Throw(Nullish)
    [] OTHER -> Return(AuditFine(u))

\* Under the plan "any" the auditor may do anything on any URL.
AuditOutcomes(plan, u) ==
  IF plan = "any"
  THEN {Return(AuditFine(u)), Throw(ErrorObj("boom")), Throw(NonError), Throw(Nullish)}
  ELSE {AuditOutcome(plan, u)}


---------------------------------------------------------------------------
(* Site-level aggregation *)

\* JSAdd of an addition that turns null into NaN, as undefined does.
JSAdd_NullIsNaN(acc, v) ==
  IF acc.tag = "NaN" THEN NaN
  ELSE CASE v.tag = "number" -> Num(acc.n + v.n)
         [] OTHER -> NaN

\* sum + p.score: null counts as 0, undefined makes the sum NaN.
JSAdd(acc, v) ==
  IF acc.tag = "NaN" THEN NaN
  ELSE CASE v.tag = "number" -> Num(acc.n + v.n)
         [] v.tag = "null" -> acc
         [] OTHER -> NaN

\* MathRoundDiv of a mean that is cut off instead of rounded.
MathRoundDiv_Truncates(s, n) == s \div n

\* Math.round(s / n) for s >= 0 and n > 0: halves round up.
MathRoundDiv(s, n) == (2 * s + n) \div (2 * n)

\* ScoreGE of a bucket that leaves its lower limit out.
ScoreGE_Strict(v, k) ==
  CASE v.tag = "number" -> v.n > k
    [] v.tag = "null" -> 0 > k
    [] OTHER -> FALSE

\* score >= k and score < k, as JavaScript compares a number, null or
\* undefined with a number.
ScoreGE(v, k) ==
  CASE v.tag = "number" -> v.n >= k
    [] v.tag = "null" -> 0 >= k
    [] OTHER -> FALSE
ScoreLT(v, k) ==
  CASE v.tag = "number" -> v.n < k
    [] v.tag = "null" -> 0 < k
    [] OTHER -> FALSE

RECURSIVE SumScores(_, _)
SumScores(pages, acc) ==
  IF pages = <<>> THEN acc
  ELSE SumScores(Tail(pages), JSAdd(acc, Head(pages).score))

RECURSIVE SumCounts(_, _)
SumCounts(pages, acc) ==
  IF pages = <<>> THEN acc
  ELSE LET c == Head(pages).counts
       IN SumCounts(Tail(pages),
                    Counts(acc.critical + c.critical, acc.warning + c.warning,
                           acc.info + c.info, acc.total + c.total))

CountIf(seq, Test(_)) == Len(SelectSeq(seq, Test))

HB(h, n, p) == [defined |-> TRUE, healthy |-> h, needsWork |-> n, poor |-> p]
NoHB == [defined |-> FALSE, healthy |-> 0, needsWork |-> 0, poor |-> 0]
Top(list) == [defined |-> TRUE, list |-> list]
NoTop == [defined |-> FALSE, list |-> <<>>]

\* issueFrequency[type] = (issueFrequency[type] || 0) + 1 on an object whose
\* keys keep their insertion order.
Bump(freq, type) ==
  IF \E i \in 1..Len(freq) : freq[i].type = type
  THEN [i \in 1..Len(freq) |->
          IF freq[i].type = type THEN [freq[i] EXCEPT !.count = @ + 1] ELSE freq[i]]
  ELSE Append(freq, [type |-> type, count |-> 1])

RECURSIVE CountIssues(_, _)
CountIssues(issues, freq) ==
  IF issues = <<>> THEN freq
  ELSE CountIssues(Tail(issues), Bump(freq, Head(issues).type))

RECURSIVE IssueFrequency(_, _)
IssueFrequency(pages, freq) ==
  IF pages = <<>> THEN freq
  ELSE IssueFrequency(Tail(pages), CountIssues(Head(pages).issues, freq))

\* One entry put into a list sorted by count descending, after the entries
\* of the same count: Array.prototype.sort is stable.
\* InsertByCount of a sort that puts an entry before those of its count.
RECURSIVE InsertByCount_BeforeEqual(_, _)
InsertByCount_BeforeEqual(sorted, e) ==
  IF sorted = <<>> THEN <<e>>
  ELSE IF Head(sorted).count > e.count
       THEN <<Head(sorted)>> \o InsertByCount_BeforeEqual(Tail(sorted), e)
       ELSE <<e>> \o sorted

RECURSIVE InsertByCount(_, _)
InsertByCount(sorted, e) ==
  IF sorted = <<>> THEN <<e>>
  ELSE IF Head(sorted).count >= e.count
       THEN <<Head(sorted)>> \o InsertByCount(Tail(sorted), e)
       ELSE <<e>> \o sorted

RECURSIVE SortByCountDesc(_, _)
SortByCountDesc(entries, sorted) ==
  IF entries = <<>> THEN sorted
  ELSE SortByCountDesc(Tail(entries), InsertByCount(sorted, Head(entries)))

\* slice(0, n)
Slice0(seq, n) == SubSeq(seq, 1, Min(n, Len(seq)))

\* The result of aggregateSiteResults, or threw = TRUE when it raises a
\* TypeError (p.counts.critical of a page without counts).  A sum divided
\* by a length of 0 is NaN.
Aggregate(threw, siteScore, siteCounts, healthBreakdown, topIssues) ==
  [threw |-> threw, siteScore |-> siteScore, siteCounts |-> siteCounts,
   healthBreakdown |-> healthBreakdown, topIssues |-> topIssues]

\* NoneSuccessful of an aggregator without its empty case.
NoneSuccessful_Never(successfulPages) == FALSE

\* Line 331.
NoneSuccessful(successfulPages) == Len(successfulPages) = 0

aggregateSiteResults(pageResults) ==
  LET successfulPages == SelectSeq(pageResults, LAMBDA p : Falsy(p.error))
  IN IF NoneSuccessful(successfulPages)
     THEN Aggregate(FALSE, Num(0), Counts(0, 0, 0, 0), NoHB, NoTop)
     ELSE IF \E i \in 1..Len(successfulPages) : ~successfulPages[i].counts.defined
     THEN Aggregate(TRUE, NaN, NoCounts, NoHB, NoTop)
     ELSE LET sum == SumScores(successfulPages, Num(0))
              siteScore == IF sum.tag = "NaN" \/ Len(successfulPages) = 0 THEN NaN
                           ELSE Num(MathRoundDiv(sum.n, Len(successfulPages)))
              siteCounts == SumCounts(successfulPages, Counts(0, 0, 0, 0))
              healthBreakdown ==
                HB(CountIf(successfulPages, LAMBDA p : ScoreGE(p.score, 80)),
                   CountIf(successfulPages, LAMBDA p : ScoreGE(p.score, 50) /\ ScoreLT(p.score, 80)),
                   CountIf(successfulPages, LAMBDA p : ScoreLT(p.score, 50)))
              topIssues == Slice0(SortByCountDesc(IssueFrequency(successfulPages, <<>>), <<>>), 5)
          IN Aggregate(FALSE, siteScore, siteCounts, healthBreakdown, Top(topIssues))


---------------------------------------------------------------------------
(* State *)

VARIABLES
  nin,          \* normalizeUrl: the URL string it is applied to
  nout,         \* normalizeUrl: the results of its successive applications
  plan,         \* what the auditor does on each URL (the environment)
  items,        \* runWithConcurrency: its argument items
  limit,        \* runWithConcurrency: its argument limit
  index,        \* runWithConcurrency: let index (0-based)
  results,      \* runWithConcurrency: const results
  workers,      \* runWithConcurrency: the workers spawned, each at its await or done
  rpc,          \* runWithConcurrency: "idle", "called", "returned" or "rejected"
  fnLog,        \* history: what the call of fn on each item did
  calls,        \* history: the number of calls of fn on each index
  cpc,          \* crawlSite: where the call stands
  rawUrl,       \* crawlSite: its argument rawUrl
  site,         \* the site behind the URL (the environment)
  startUrl,     \* crawlSite: let startUrl
  baseDomain,   \* crawlSite: let baseDomain
  probe,        \* how the reachability probe ended
  visited,      \* discoverUrls: const visited
  discovered,   \* discoverUrls: const discovered, in insertion order
  queue,        \* discoverUrls: const queue
  fetches,      \* discoverUrls: the tasks of the current batch
  allUrls,      \* crawlSite: let allUrls
  auditedCount, \* crawlSite: let auditedCount
  report,       \* what crawlSite returned
  nFetch,       \* history: the number of discovery fetches issued
  nAudit,       \* history: the number of calls of auditUrl
  aggIn,        \* aggregateSiteResults: its argument pageResults
  aggOut,       \* aggregateSiteResults: what it returned, once it has
  events,       \* history: the calls of onProgress crawlSite has made, in order
  sent,         \* route: the events enqueued on the SSE stream, in order
  stream,       \* route: the state of the ReadableStream, "readable" or "closed"
  client,       \* the client of the stream (the environment): "connected" or "gone"
  rtpc,         \* route: the background function is "crawling" or "finished"
  raised,       \* history: the number of exceptions that left sendEvent
  writes        \* history: which code has written which shared variable

normVars == <<nin, nout>>
runnerVars == <<items, limit, index, results, workers, rpc, fnLog, calls>>
discVars == <<visited, discovered, queue, fetches>>
crawlVars == <<cpc, rawUrl, site, startUrl, baseDomain, probe, allUrls, report>>
aggVars == <<aggIn, aggOut>>
routeVars == <<events, sent, stream, client, rtpc, raised>>
vars == <<nin, nout, plan, items, limit, index, results, workers, rpc, fnLog, calls,
          cpc, rawUrl, site, startUrl, baseDomain, probe, visited, discovered, queue,
          fetches, allUrls, auditedCount, report, nFetch, nAudit,
          aggIn, aggOut, events, sent, stream, client, rtpc, raised, writes>>

NoReport == [t |-> "none"]

\* The state of the variables of a part of the program that is not running.
NormIdle == nin = NoUrl /\ nout = <<>>
RunnerIdle ==
  /\ items = <<>> /\ limit = 0 /\ index = 0 /\ results = <<>> /\ workers = <<>>
  /\ rpc = "idle" /\ fnLog = <<>> /\ calls = <<>>
  /\ auditedCount = 0 /\ nAudit = 0
CrawlIdle ==
  /\ cpc = "none" /\ rawUrl = NoUrl /\ site = "A" /\ startUrl = NoUrl
  /\ baseDomain = <<>> /\ probe = "none" /\ visited = {} /\ discovered = <<>>
  /\ queue = <<>> /\ fetches = <<>> /\ allUrls = <<>> /\ report = NoReport
  /\ nFetch = 0
  /\ events = <<>> /\ sent = <<>> /\ stream = "closed" /\ client = "gone"
  /\ rtpc = "none" /\ raised = 0 /\ writes = {}
AggIdle == aggIn = <<>> /\ aggOut = <<>>

---------------------------------------------------------------------------
(* aggregateSiteResults applied to lists of page results *)

\* Page results of the shapes auditUrl and the runner produce: scores at
\* and beside the limits of the health buckets, a null score, issue lists
\* that share types, one with more than five types, and a failed page.
PagePool ==
  { PageOk(Abs(EX, <<"">>), Num(100), Counts(0, 0, 0, 0), <<>>),
    PageOk(Abs(EX, <<"p85">>), Num(85), Counts(0, 1, 1, 2),
           << Issue("missing_og", "warning"), Issue("missing_schema", "info") >>),
    PageOk(Abs(EX, <<"p80">>), Num(80), Counts(1, 0, 0, 1),
           << Issue("missing_title", "critical") >>),
    PageOk(Abs(EX, <<"p50">>), Num(50), Counts(2, 1, 0, 3),
           << Issue("missing_h1", "critical"), Issue("missing_title", "critical"),
              Issue("missing_og", "warning") >>),
    PageOk(Abs(EX, <<"p45">>), Num(45), Counts(2, 1, 1, 4),
           << Issue("missing_canonical", "critical"), Issue("missing_h1", "critical"),
              Issue("thin_content", "warning"), Issue("missing_schema", "info") >>),
    PageOk(Abs(EX, <<"p0">>), Num(0), Counts(4, 3, 0, 7),
           << Issue("missing_viewport", "critical"), Issue("thin_content", "warning"),
              Issue("missing_canonical", "critical"), Issue("missing_h1", "critical"),
              Issue("missing_title", "critical"), Issue("missing_og", "warning"),
              Issue("missing_lang", "warning") >>),
    PageOk(Abs(EX, <<"js">>), Null, Counts(0, 1, 0, 1),
           << Issue("js_rendered_page", "warning") >>),
    PageErr(Abs(EX, <<"gone">>), "The page returned an HTTP 404 error.") }

InitAggregate ==
  /\ NormIdle
  /\ RunnerIdle
  /\ CrawlIdle
  /\ plan = "any"
  /\ \E n \in 0..MaxAggPages : aggIn \in [1..n -> PagePool]
  /\ aggOut = <<>>

AggregateStep ==
  /\ cpc = "none"
  /\ rpc = "idle"
  /\ nin = NoUrl
  /\ aggOut = <<>>
  /\ aggOut' = <<aggregateSiteResults(aggIn)>>
  /\ UNCHANGED <<aggIn, normVars, plan, runnerVars, crawlVars, discVars, routeVars, writes>>
  /\ UNCHANGED <<auditedCount, nFetch, nAudit>>

NextAggregate == AggregateStep

SpecAggregate == InitAggregate /\ [][NextAggregate]_vars


---------------------------------------------------------------------------
(* The crawl route: the events it writes on the SSE stream.  The message  *)
(* of a progress event is a text made of its numbers and is left out.     *)

\* The object the progress callback passes to sendEvent (lines 96-102).
ProgressEvent(phase, current, total) ==
  [type |-> "progress", phase |-> phase, current |-> current, total |-> total,
   error |-> <<>>, result |-> NoReport]

\* { type: 'error', error }: the error is a text, or the text of the route
\* with the message of what crawlSite threw in it.
ErrorEvent(texts) ==
  [type |-> "error", phase |-> "", current |-> 0, total |-> 0,
   error |-> texts, result |-> NoReport]

\* { type: 'complete', result }
CompleteEvent(result) ==
  [type |-> "complete", phase |-> "", current |-> 0, total |-> 0,
   error |-> <<>>, result |-> result]

\* EnqueueThrows of a stream that takes chunks after it was closed.
EnqueueThrows_Never(st) == FALSE

\* streamController.enqueue and streamController.close throw a TypeError
\* on a stream that is closed or cancelled.
EnqueueThrows(st) == st # "readable"

\* sendEvent without its try/catch.
sendEvent_NoCatch(st, out, data) ==
  IF EnqueueThrows(st)
  THEN [sent |-> out.sent, raised |-> out.raised + 1]
  ELSE [sent |-> Append(out.sent, data), raised |-> out.raised]

\* sendEvent(data), lines 76-83: the event is enqueued, or the exception of
\* enqueue is swallowed.
sendEvent(st, out, data) ==
  IF EnqueueThrows(st)
  THEN out
  ELSE [sent |-> Append(out.sent, data), raised |-> out.raised]

\* Code of the kind by (the control loop of discoverUrls or crawlSite, a
\* task of a discovery batch, a worker of the runner or the fn it calls)
\* writes the shared variables named.
By(names, by) == {[var |-> n, by |-> by] : n \in names}
Wrote(ws) == writes' = writes \cup ws

\* crawlSite calls onProgress(phase, current, total, message), when it was
\* given one: the route's callback sends a progress event.
OnProgress(phase, current, total) ==
  IF cpc = "none"
  THEN UNCHANGED routeVars
  ELSE /\ events' = Append(events, ProgressEvent(phase, current, total))
       /\ LET out == sendEvent(stream, [sent |-> sent, raised |-> raised],
                               ProgressEvent(phase, current, total))
          IN sent' = out.sent /\ raised' = out.raised
       /\ UNCHANGED <<stream, client, rtpc>>

---------------------------------------------------------------------------
(* normalizeUrl applied, and applied again to its result *)

Segments == {"", "a", "api", "logo.png"}
PathsUpTo(n) == UNION {[1..k -> Segments] : k \in 1..n}
Queries == {<<>>, <<"page">>, <<"utm_source">>, <<"ref", "page", "gclid">>}
NormInputs ==
  {MkUrl(s, h, p, q, f) : s \in {"https", ""}, h \in {EX, EXU, WWW},
                          p \in PathsUpTo(MaxPathLen), q \in Queries, f \in {"", "top"}}

InitNormalize ==
  /\ nin \in NormInputs
  /\ nout = <<>>
  /\ plan = "any"
  /\ RunnerIdle
  /\ CrawlIdle
  /\ AggIdle

NormalizeStep ==
  /\ nin # NoUrl
  /\ Len(nout) < 2
  /\ nout' = Append(nout, normalizeUrl(IF nout = <<>> THEN nin ELSE Last(nout)))
  /\ UNCHANGED <<nin, plan, runnerVars, crawlVars, discVars, auditedCount, nFetch, nAudit>>
  /\ UNCHANGED <<aggVars, routeVars, writes>>

NextNormalize == NormalizeStep

SpecNormalize == InitNormalize /\ [][NextNormalize]_vars


---------------------------------------------------------------------------
(* runWithConcurrency(items, limit, fn).  Code between two awaits runs as  *)
(* one step: a worker runs from its loop test to its await of fn, and from *)
(* the settling of fn through the store to the next await.                 *)

\* NWorkers of a runner that starts every item at once, as Promise.all would.
NWorkers_OnePerItem == Len(items)

\* Array.from({ length: Math.min(limit, items.length) }, worker) makes this
\* many workers (a negative length makes none).
NWorkers == Max(0, Min(limit, Len(items)))

\* The state as the call starts: lines 208-209.
RunnerCalled(its, lim) ==
  /\ items' = its
  /\ limit' = lim
  /\ index' = 0
  /\ results' = [i \in 1..Len(its) |-> EmptySlot]
  /\ workers' = <<>>
  /\ rpc' = "called"
  /\ fnLog' = [i \in 1..Len(its) |-> NoOutcome]
  /\ calls' = [i \in 1..Len(its) |-> 0]
  /\ auditedCount' = 0
  /\ nAudit' = 0

\* IndexAfterClaim of a counter that two workers bump for one claim.
IndexAfterClaim_SkipsOne(idx) == idx + 2

\* const current = index++
Claimed(idx) == idx
IndexAfterClaim(idx) == idx + 1

\* A worker from its loop test (line 212) to its next await: it claims the
\* next index and calls fn on that item, or it is done.
WorkerAtLoop(w) ==
  IF index < Len(items)
  THEN /\ workers' = [i \in 1..Max(w, Len(workers)) |->
                        IF i = w THEN [pc |-> "await", current |-> Claimed(index)]
                        ELSE workers[i]]
       /\ index' = IndexAfterClaim(index)
       /\ calls' = [calls EXCEPT ![Claimed(index) + 1] = @ + 1]
       /\ nAudit' = nAudit + 1
  ELSE /\ workers' = [i \in 1..Max(w, Len(workers)) |->
                        IF i = w THEN [pc |-> "done", current |-> index]
                        ELSE workers[i]]
       /\ UNCHANGED <<index, calls, nAudit>>

\* Line 224: the next worker is created and runs to its first await.
SpawnWorker ==
  /\ rpc = "called"
  /\ Len(workers) < NWorkers
  /\ WorkerAtLoop(Len(workers) + 1)
  /\ UNCHANGED <<items, limit, results, rpc, fnLog, auditedCount>>
  /\ Wrote(IF index < Len(items) THEN By({"index"}, "worker") ELSE {})
  /\ UNCHANGED <<normVars, aggVars, routeVars, plan, crawlVars, discVars, nFetch>>

\* fn of crawlSite (lines 460-470) on url: what auditUrl throws it throws;
\* what auditUrl returns it returns with the url put in.
FnOutcome(o, url) ==
  IF o.t = "return" THEN Return([o.v EXCEPT !.url = url]) ELSE o

\* The slot a worker writes: results[current].
SlotOf(current) == current + 1

\* A rejection of crawlSite's await is on its way to the caller: nothing
\* else runs before it.
RejectionPending == cpc = "auditing" /\ rpc = "rejected"

\* The call of fn a worker awaits settles; the worker stores the outcome
\* (lines 214-219) and goes round its loop.  Reading err.message of a
\* thrown null or undefined throws in the catch block: the worker's promise
\* rejects, and so does Promise.all.
FnSettle(w) ==
  /\ rpc \in {"called", "rejected"}
  /\ ~RejectionPending
  /\ Len(workers) = NWorkers
  /\ w \in 1..Len(workers)
  /\ workers[w].pc = "await"
  /\ \E o \in AuditOutcomes(plan, items[workers[w].current + 1]) :
       LET current == workers[w].current
           out == FnOutcome(o, items[current + 1])
       IN /\ fnLog' = [fnLog EXCEPT ![current + 1] = out]
          /\ auditedCount' = IF out.t = "return" THEN auditedCount + 1 ELSE auditedCount
          /\ Wrote((IF out.t = "return" THEN By({"auditedCount"}, "fn") ELSE {})
                   \cup (IF out.t = "throw" /\ out.thrown.nullish THEN {}
                         ELSE By({"results"}, "worker"))
                   \cup (IF index < Len(items) /\ ~(out.t = "throw" /\ out.thrown.nullish)
                         THEN By({"index"}, "worker") ELSE {}))
          /\ IF out.t = "return"
             THEN OnProgress("auditing", auditedCount + 1, Len(items))
             ELSE UNCHANGED routeVars
          /\ IF out.t = "throw" /\ out.thrown.nullish
             THEN /\ workers' = [workers EXCEPT ![w] = [pc |-> "crashed", current |-> current]]
                  /\ rpc' = "rejected"
                  /\ UNCHANGED <<results, index, calls, nAudit>>
             ELSE /\ results' = [results EXCEPT ![SlotOf(current)] =
                                   IF out.t = "return" THEN out.v
                                   ELSE ErrorEntry(out.thrown.message)]
                  /\ WorkerAtLoop(w)
                  /\ UNCHANGED rpc
  /\ UNCHANGED <<items, limit>>
  /\ UNCHANGED <<normVars, aggVars, plan, crawlVars, discVars, nFetch>>

\* Lines 225-227: every worker is done, Promise.all resolves and results
\* is returned.
RunnerReturn ==
  /\ rpc = "called"
  /\ Len(workers) = NWorkers
  /\ \A w \in 1..Len(workers) : workers[w].pc = "done"
  /\ rpc' = "returned"
  /\ UNCHANGED <<items, limit, index, results, workers, fnLog, calls, auditedCount, nAudit>>
  /\ UNCHANGED <<normVars, aggVars, writes, routeVars, plan, crawlVars, discVars, nFetch>>

\* The items of a direct call: n distinct URLs.
ItemsOfLen(n) == [i \in 1..n |-> Abs(EX, <<ToString(i)>>)]

InitRunner ==
  /\ NormIdle
  /\ CrawlIdle
  /\ AggIdle
  /\ plan = "any"
  /\ \E n \in 0..MaxItems, lim \in 0..MaxLimit :
       /\ items = ItemsOfLen(n)
       /\ limit = lim
       /\ results = [i \in 1..n |-> EmptySlot]
       /\ fnLog = [i \in 1..n |-> NoOutcome]
       /\ calls = [i \in 1..n |-> 0]
  /\ index = 0
  /\ workers = <<>>
  /\ rpc = "called"
  /\ auditedCount = 0
  /\ nAudit = 0

NextRunner ==
  \/ SpawnWorker
  \/ \E w \in 1..MaxLimit : FnSettle(w)
  \/ RunnerReturn

SpecRunner == InitRunner /\ [][NextRunner]_vars


---------------------------------------------------------------------------
(* discoverUrls(startUrl, baseDomain, onProgress) *)

\* One task of a batch: pending while its fetch is in flight, then
\* fulfilled with the links it returns.
Task(url, status, links) == [url |-> url, status |-> status, links |-> links]

\* MergeLink without the test of discovered.size.
MergeLink_NoLimit(d, link) ==
  IF link \notin Range(d.discovered)
  THEN [discovered |-> Append(d.discovered, link), queue |-> Append(d.queue, link)]
  ELSE d

\* Line 302-305 for one link.
MergeLink(d, link) ==
  IF link \notin Range(d.discovered) /\ Len(d.discovered) < MAX_PAGES
  THEN [discovered |-> Append(d.discovered, link), queue |-> Append(d.queue, link)]
  ELSE d

RECURSIVE MergeLinks(_, _)
MergeLinks(d, links) ==
  IF links = <<>> THEN d
  ELSE MergeLinks(MergeLink(d, Head(links)), Tail(links))

\* MergeFetches of a loop that takes the tasks from the last to the first,
\* as they would come when the last fetch is the first to complete.
RECURSIVE MergeFetches_LastFirst(_, _)
MergeFetches_LastFirst(d, fs) ==
  IF fs = <<>> THEN d
  ELSE MergeFetches_LastFirst(MergeLinks(d, Last(fs).links), Front(fs))

\* Lines 298-308: the links of every task of the batch, in batch order.
RECURSIVE MergeFetches(_, _)
MergeFetches(d, fs) ==
  IF fs = <<>> THEN d
  ELSE MergeFetches(MergeLinks(d, Head(fs).links), Tail(fs))

\* Line 257, the loop test.
LoopContinues(q, disc) == Len(q) > 0 /\ Len(disc) < MAX_PAGES

\* queue.splice(0, CONCURRENCY): what is taken and what stays.
BatchOf(q) == SubSeq(q, 1, Min(CONCURRENCY, Len(q)))
RestOf(q) == SubSeq(q, Min(CONCURRENCY, Len(q)) + 1, Len(q))

\* Line 264: task i of the batch finds its url visited, by an earlier crawl
\* step or by an earlier task of the batch.
AlreadyVisited(b, i) == b[i] \in visited \/ \E j \in 1..(i - 1) : b[j] = b[i]

\* LinksOf without the test of the final URL (line 285).
LinksOf_NoFinalCheck(resp) ==
  IF resp.kind = "error" THEN <<>>
  ELSE IF resp.kind # "html" THEN <<>>
  ELSE extractInternalLinks(resp.html, resp.final, baseDomain)

\* Lines 284-290: the links a response contributes.
LinksOf(resp) ==
  IF resp.kind = "error" THEN <<>>
  ELSE IF resp.kind # "html" THEN <<>>
  ELSE IF ~isSameDomain(resp.final, baseDomain) THEN <<>>
  ELSE extractInternalLinks(resp.html, resp.final, baseDomain)

\* Line 439: the start URL crawlSite passes to discoverUrls.
DiscoverArg == normalizeUrl(startUrl)

\* InitialDiscovered of a discovery that starts with an empty set.
InitialDiscovered_Empty(url) == <<>>

\* Lines 250 and 253: discovered is created and the normalized start URL
\* is added to it.
InitialDiscovered(url) == <<normalizeUrl(url)>>

\* Lines 249-253.
DiscoverInit ==
  /\ cpc = "discoverInit"
  /\ visited' = {}
  /\ discovered' = InitialDiscovered(DiscoverArg)
  /\ queue' = <<DiscoverArg>>
  /\ fetches' = <<>>
  /\ cpc' = "loop"
  /\ UNCHANGED <<rawUrl, site, startUrl, baseDomain, probe, allUrls, report>>
  /\ Wrote(By({"visited", "discovered", "queue"}, "loop"))
  /\ UNCHANGED <<normVars, aggVars, routeVars, plan, runnerVars, auditedCount, nFetch, nAudit>>

\* Lines 257-266: the loop goes on; the batch is taken off the queue and
\* each of its tasks runs to its fetch.
StartBatch ==
  /\ cpc = "loop"
  /\ LoopContinues(queue, discovered)
  /\ LET b == BatchOf(queue)
     IN /\ queue' = RestOf(queue)
        /\ visited' = visited \cup Range(b)
        /\ fetches' = [i \in 1..Len(b) |->
                         IF AlreadyVisited(b, i) THEN Task(b[i], "fulfilled", <<>>)
                         ELSE Task(b[i], "pending", <<>>)]
        /\ nFetch' = nFetch + Cardinality({i \in 1..Len(b) : ~AlreadyVisited(b, i)})
  /\ cpc' = "batch"
  /\ UNCHANGED <<discovered, rawUrl, site, startUrl, baseDomain, probe, allUrls, report>>
  /\ Wrote(By({"queue"}, "loop")
           \cup (IF \E i \in 1..Len(BatchOf(queue)) : ~AlreadyVisited(BatchOf(queue), i)
                 THEN By({"visited"}, "task") ELSE {}))
  /\ UNCHANGED <<normVars, aggVars, routeVars, plan, runnerVars, auditedCount, nAudit>>

\* Lines 283-287: the response is HTML of the base domain, and the task
\* goes on to await response.text().
ReadsBody(resp) ==
  /\ resp.kind \in {"html", "stalled"}
  /\ isSameDomain(resp.final, baseDomain)

\* Lines 267-285 and 291-293: the fetch of one task settles, in any order
\* among the tasks of the batch, with the headers of a response, a network
\* error or the abort of its timer.  The timer is cleared (line 280); the
\* task returns no links, or awaits the body.
FetchSettle(i) ==
  /\ cpc = "batch"
  /\ i \in 1..Len(fetches)
  /\ fetches[i].status = "pending"
  /\ LET resp == SiteResponse(site, fetches[i].url)
     IN fetches' = [fetches EXCEPT ![i] =
                      IF ReadsBody(resp)
                      THEN Task(fetches[i].url, "reading", <<>>)
                      ELSE Task(fetches[i].url, "fulfilled", LinksOf(resp))]
  /\ UNCHANGED <<visited, discovered, queue, crawlVars>>
  /\ UNCHANGED <<normVars, aggVars, writes, routeVars, plan, runnerVars, auditedCount, nFetch, nAudit>>

\* Lines 287-290: the body of a response has been read to its end and the
\* task returns the links of the page.  No timer runs while the body is
\* read: a body that never ends leaves the task at its await.
BodyRead(i) ==
  /\ cpc = "batch"
  /\ i \in 1..Len(fetches)
  /\ fetches[i].status = "reading"
  /\ SiteResponse(site, fetches[i].url).kind # "stalled"
  /\ fetches' = [fetches EXCEPT ![i] =
                   Task(fetches[i].url, "fulfilled", LinksOf(SiteResponse(site, fetches[i].url)))]
  /\ UNCHANGED <<visited, discovered, queue, crawlVars>>
  /\ UNCHANGED <<normVars, aggVars, writes, routeVars, plan, runnerVars, auditedCount, nFetch, nAudit>>

\* BatchSettled of a loop that goes on as soon as one task has settled.
BatchSettled_Any(fs) == \E i \in 1..Len(fs) : fs[i].status = "fulfilled"

\* Line 262: await Promise.allSettled(...) resumes when every task of the
\* batch has settled.
BatchSettled(fs) == \A i \in 1..Len(fs) : fs[i].status = "fulfilled"

\* ProgressCurrent of a loop that reports the queue length first.
ProgressCurrent_QueueLength(d) == Len(d.queue)

\* Line 312: the first argument of onProgress is discovered.size.
ProgressCurrent(d) == Len(d.discovered)

\* Lines 296-313: every task has settled; the links are merged and the
\* progress is reported.
MergeBatch ==
  /\ cpc = "batch"
  /\ BatchSettled(fetches)
  /\ LET d == MergeFetches([discovered |-> discovered, queue |-> queue], fetches)
     IN /\ discovered' = d.discovered
        /\ queue' = d.queue
        /\ OnProgress("discovering", ProgressCurrent(d), Len(d.queue))
  /\ fetches' = <<>>
  /\ cpc' = "loop"
  /\ UNCHANGED <<visited, rawUrl, site, startUrl, baseDomain, probe, allUrls, report>>
  /\ Wrote(IF MergeFetches([discovered |-> discovered, queue |-> queue], fetches).discovered
                # discovered
           THEN By({"discovered", "queue"}, "loop") ELSE {})
  /\ UNCHANGED <<normVars, aggVars, plan, runnerVars, auditedCount, nFetch, nAudit>>

\* Lines 257 and 316: the loop ends and Array.from(discovered) is returned.
DiscoverReturn ==
  /\ cpc = "loop"
  /\ ~LoopContinues(queue, discovered)
  /\ allUrls' = discovered
  /\ cpc' = "discovered"
  /\ UNCHANGED <<discVars, rawUrl, site, startUrl, baseDomain, probe, report>>
  /\ UNCHANGED <<normVars, aggVars, writes, routeVars, plan, runnerVars, auditedCount, nFetch, nAudit>>


---------------------------------------------------------------------------
(* crawlSite(rawUrl, onProgress) *)

ErrorResult(msg) == [t |-> "error", error |-> msg]

\* Lines 397-400: https:// is put before a URL that has no http scheme.
WithScheme(raw) ==
  IF raw.scheme \notin {"http", "https"} THEN [raw EXCEPT !.scheme = "https"] ELSE raw

\* What the user may enter.
RawUrls ==
  { MkUrl("", EX, <<"">>, <<>>, ""),
    MkUrl("https", EXU, <<"a", "", "">>, <<>>, ""),
    MkUrl("https", EX, <<"a", "">>, <<"utm_source">>, "top"),
    MkUrl("", EX, <<"logo.png">>, <<>>, ""),
    MkUrl("", <<"exa mple", "com">>, <<"">>, <<>>, "") }

ProbeOutcomes == {"ok", "non2xx", "abort", "neterr"}

ProbeError(outcome) ==
  CASE outcome = "non2xx" -> ErrorResult("The site returned an HTTP error.")
    [] outcome = "abort" -> ErrorResult("The site took too long to respond.")
    [] OTHER -> ErrorResult("Could not reach the site.")

InitCrawlOn(sites) ==
  /\ NormIdle
  /\ RunnerIdle
  /\ plan \in Plans
  /\ rawUrl \in RawUrls
  /\ site \in sites
  /\ cpc = "start"
  /\ startUrl = NoUrl
  /\ baseDomain = <<>>
  /\ probe = "none"
  /\ visited = {}
  /\ discovered = <<>>
  /\ queue = <<>>
  /\ fetches = <<>>
  /\ allUrls = <<>>
  /\ report = NoReport
  /\ nFetch = 0
  /\ AggIdle
  /\ events = <<>>
  /\ sent = <<>>
  /\ stream = "readable"
  /\ client = "connected"
  /\ rtpc = "crawling"
  /\ raised = 0
  /\ writes = {}

InitCrawl == InitCrawlOn(Sites)

\* Lines 397-418: the start URL is formed and parsed, and the probe is sent.
CrawlStart ==
  /\ cpc = "start"
  /\ startUrl' = WithScheme(rawUrl)
  /\ IF CanParse(WithScheme(rawUrl))
     THEN /\ baseDomain' = URLParse(WithScheme(rawUrl)).host
          /\ cpc' = "probing"
          /\ UNCHANGED report
     ELSE /\ report' = ErrorResult("Invalid URL. Please enter a valid website address.")
          /\ cpc' = "done"
          /\ UNCHANGED baseDomain
  /\ UNCHANGED <<rawUrl, site, probe, allUrls, discVars>>
  /\ UNCHANGED <<normVars, aggVars, writes, routeVars, plan, runnerVars, auditedCount, nFetch, nAudit>>

\* ProbeFails without the test of testFetch.ok.
ProbeFails_StatusIgnored(outcome) == outcome \in {"abort", "neterr"}

\* Lines 421 and 426: the probe threw, or its response is not ok.
ProbeFails(outcome) == outcome \in {"abort", "neterr"} \/ outcome = "non2xx"

\* Lines 419-434: the probe settles.
ProbeSettle ==
  /\ cpc = "probing"
  /\ \E outcome \in ProbeOutcomes :
       /\ probe' = outcome
       /\ IF ~ProbeFails(outcome)
          THEN /\ cpc' = "discoverInit"
               /\ OnProgress("discovering", 0, 0)
               /\ UNCHANGED report
          ELSE /\ cpc' = "done"
               /\ report' = ProbeError(outcome)
               /\ UNCHANGED routeVars
  /\ UNCHANGED <<rawUrl, site, startUrl, baseDomain, allUrls, discVars>>
  /\ UNCHANGED <<normVars, aggVars, writes, plan, runnerVars, auditedCount, nFetch, nAudit>>

\* Lines 451-460: no page is an error; otherwise the audit starts.
AuditStart ==
  /\ cpc = "discovered"
  /\ IF Len(allUrls) = 0
     THEN /\ report' = ErrorResult("No pages found to crawl.")
          /\ cpc' = "done"
          /\ UNCHANGED <<runnerVars, auditedCount, nAudit, routeVars, writes>>
     ELSE /\ RunnerCalled(allUrls, CONCURRENCY)
          /\ Wrote(By({"auditedCount", "index", "results"}, "loop"))
          /\ OnProgress("auditing", 0, Len(allUrls))
          /\ cpc' = "auditing"
          /\ UNCHANGED report
  /\ UNCHANGED <<rawUrl, site, startUrl, baseDomain, probe, allUrls, discVars>>
  /\ UNCHANGED <<normVars, aggVars, plan, nFetch>>

\* WithUrl of a map that leaves the entry as the runner stored it.
WithUrl_Keep(p, url) == p

\* { ...p, url }
WithUrl(p, url) == [p EXCEPT !.t = "object", !.url = url]

\* Line 473.
SuccessfulPages(pageResults) ==
  SelectSeq(pageResults, LAMBDA p : p.t = "object" /\ Falsy(p.error))

\* Lines 474-476.
FailedPages(pageResults, urls) ==
  SelectSeq([i \in 1..Len(pageResults) |-> WithUrl(pageResults[i], urls[i])],
            LAMBDA p : ~Falsy(p.error))

\* The comparator of lines 482-487: a goes before b.
WorseThan(a, b) ==
  IF b.counts.critical # a.counts.critical
  THEN a.counts.critical > b.counts.critical
  ELSE a.counts.total > b.counts.total

RECURSIVE InsertPage(_, _)
InsertPage(sorted, p) ==
  IF sorted = <<>> THEN <<p>>
  ELSE IF WorseThan(p, Head(sorted))
       THEN <<p>> \o sorted
       ELSE <<Head(sorted)>> \o InsertPage(Tail(sorted), p)

RECURSIVE SortPages(_, _)
SortPages(pages, sorted) ==
  IF pages = <<>> THEN sorted
  ELSE SortPages(Tail(pages), InsertPage(sorted, Head(pages)))

\* Lines 489-513.
SiteReport(pageResults, urls) ==
  LET successfulPages == SuccessfulPages(pageResults)
      failedPages == FailedPages(pageResults, urls)
      agg == aggregateSiteResults(successfulPages)
  IN [t |-> "report",
      domain |-> baseDomain,
      startUrl |-> startUrl,
      totalPages |-> Len(urls),
      successfulPages |-> Len(successfulPages),
      failedPages |-> Len(failedPages),
      siteScore |-> agg.siteScore,
      siteCounts |-> agg.siteCounts,
      healthBreakdown |-> agg.healthBreakdown,
      topIssues |-> agg.topIssues,
      pages |-> SortPages(successfulPages, <<>>),
      errors |-> [i \in 1..Len(failedPages) |->
                    [url |-> failedPages[i].url, error |-> failedPages[i].error]],
      hitPageLimit |-> Len(urls) >= MAX_PAGES,
      pageLimit |-> MAX_PAGES]

\* Lines 472-513: the runner has returned; the report is built, unless the
\* aggregation raises.
CrawlFinish ==
  /\ cpc = "auditing"
  /\ rpc = "returned"
  /\ IF aggregateSiteResults(SuccessfulPages(results)).threw
     THEN cpc' = "rejected" /\ UNCHANGED report
     ELSE cpc' = "done" /\ report' = SiteReport(results, allUrls)
  /\ UNCHANGED <<rawUrl, site, startUrl, baseDomain, probe, allUrls, discVars>>
  /\ UNCHANGED <<normVars, aggVars, writes, routeVars, plan, runnerVars, auditedCount, nFetch, nAudit>>

\* Line 460: the runner rejects, and crawlSite with it.
CrawlAuditRejected ==
  /\ RejectionPending
  /\ cpc' = "rejected"
  /\ UNCHANGED <<rawUrl, site, startUrl, baseDomain, probe, allUrls, report, discVars>>
  /\ UNCHANGED <<normVars, aggVars, writes, routeVars, plan, runnerVars, auditedCount, nFetch, nAudit>>

\* What crawlSite threw when it rejected: the TypeError of err.message on
\* a thrown null (line 218), or that of p.counts.critical on a page
\* without counts (line 343).
CrawlRejection ==
  IF rpc = "rejected"
  THEN "Cannot read properties of null (reading 'message')"
  ELSE "Cannot read properties of undefined (reading 'critical')"

\* route.js lines 105-113: the terminal event for what crawlSite did.
TerminalEvent ==
  IF cpc = "rejected"
  THEN ErrorEvent(<<"Crawl failed unexpectedly.", CrawlRejection>>)
  ELSE IF report.t = "error"
  THEN ErrorEvent(<<report.error>>)
  ELSE CompleteEvent(report)

\* route.js lines 105-117: crawlSite has settled; the route sends the
\* terminal event and closes the stream.
RouteFinish ==
  /\ rtpc = "crawling"
  /\ cpc \in {"done", "rejected"}
  /\ LET out == sendEvent(stream, [sent |-> sent, raised |-> raised], TerminalEvent)
     IN sent' = out.sent /\ raised' = out.raised
  /\ stream' = "closed"
  /\ rtpc' = "finished"
  /\ UNCHANGED <<events, client>>
  /\ UNCHANGED <<normVars, aggVars, writes, plan, runnerVars, crawlVars, discVars>>
  /\ UNCHANGED <<auditedCount, nFetch, nAudit>>

\* route.js lines 66-68: the client disconnects and the stream is
\* cancelled; cancel() does nothing.
ClientCancel ==
  /\ rtpc = "crawling"
  /\ client = "connected"
  /\ client' = "gone"
  /\ stream' = "closed"
  /\ UNCHANGED <<events, sent, rtpc, raised>>
  /\ UNCHANGED <<normVars, aggVars, writes, plan, runnerVars, crawlVars, discVars>>
  /\ UNCHANGED <<auditedCount, nFetch, nAudit>>

Init == InitCrawl

Next ==
  \/ CrawlStart
  \/ ProbeSettle
  \/ DiscoverInit
  \/ StartBatch
  \/ \E i \in 1..CONCURRENCY : FetchSettle(i)
  \/ \E i \in 1..CONCURRENCY : BodyRead(i)
  \/ MergeBatch
  \/ DiscoverReturn
  \/ AuditStart
  \/ SpawnWorker
  \/ \E w \in 1..CONCURRENCY : FnSettle(w)
  \/ RunnerReturn
  \/ CrawlFinish
  \/ CrawlAuditRejected
  \/ RouteFinish
  \/ ClientCancel

Spec == Init /\ [][Next]_vars

\* The steps of the server that need nothing but the event loop: it runs
\* every continuation that is ready.
LoopSteps ==
  \/ CrawlStart
  \/ ProbeSettle
  \/ DiscoverInit
  \/ StartBatch
  \/ MergeBatch
  \/ DiscoverReturn
  \/ AuditStart
  \/ SpawnWorker
  \/ \E w \in 1..CONCURRENCY : FnSettle(w)
  \/ RunnerReturn
  \/ CrawlAuditRejected
  \/ RouteFinish

\* Every fetch of a batch settles, by an answer, an error or the abort of
\* its timer: no fetch stays pending for ever.
FetchesSettle == []<>(\A i \in 1..Len(fetches) : fetches[i].status # "pending")

\* crawlSite goes on when the runner it awaits has returned.
CrawlResumes == []<>(~(cpc = "auditing" /\ rpc = "returned"))

\* A body that ends is read to its end: no task stays at its
\* await response.text() unless the body it reads never ends.
BodiesEnd ==
  []<>(\A i \in 1..Len(fetches) :
         fetches[i].status = "reading" => SiteResponse(site, fetches[i].url).kind = "stalled")

\* The crawl under a fair scheduler.  The client disconnects or not, as
\* it likes.
SpecLive ==
  Init /\ [][Next]_vars /\ WF_vars(LoopSteps) /\ FetchesSettle /\ CrawlResumes /\ BodiesEnd

\* The crawl under a fair scheduler, of a site that may leave a body
\* unfinished.
InitStall == InitCrawlOn(StallSites)

SpecStall ==
  InitStall /\ [][Next]_vars /\ WF_vars(LoopSteps) /\ FetchesSettle /\ CrawlResumes /\ BodiesEnd


\* Direct calls of runWithConcurrency beside the calls crawlSite makes.
InitAll == InitCrawl \/ InitRunner

NextAll ==
  \/ CrawlStart
  \/ ProbeSettle
  \/ DiscoverInit
  \/ StartBatch
  \/ \E i \in 1..CONCURRENCY : FetchSettle(i)
  \/ \E i \in 1..CONCURRENCY : BodyRead(i)
  \/ MergeBatch
  \/ DiscoverReturn
  \/ AuditStart
  \/ SpawnWorker
  \/ \E w \in 1..Max(CONCURRENCY, MaxLimit) : FnSettle(w)
  \/ RunnerReturn
  \/ CrawlFinish
  \/ CrawlAuditRejected
  \/ RouteFinish
  \/ ClientCancel

SpecAll == InitAll /\ [][NextAll]_vars

---------------------------------------------------------------------------
(* Properties *)

\* discoverUrls has returned.
DiscoveryOver == cpc \in {"discovered", "auditing", "done", "rejected"} /\ probe = "ok"

\* The calls of fn in flight: the workers at their await.
InFlight == {w \in 1..Len(workers) : workers[w].pc = "await"}

\* The fetches of the current discovery batch in flight: the tasks that
\* await their response or its body.
PendingFetches == {i \in 1..Len(fetches) : fetches[i].status # "fulfilled"}

\* The in-scope URLs a fetch of u leads to on the site.
SiteLinks(u) == Range(LinksOf(SiteResponse(site, u)))

RECURSIVE LinkClosure(_)
LinkClosure(R) ==
  LET N == R \cup UNION {SiteLinks(u) : u \in R}
  IN IF N = R THEN R ELSE LinkClosure(N)

\* The URLs reachable by links from the start URL, with the normalized
\* start URL itself.
Reachable == {normalizeUrl(DiscoverArg)} \cup LinkClosure(SiteLinks(DiscoverArg))

\* C1: discovered never holds more than MAX_PAGES URLs, and a report has
\* hitPageLimit true exactly when MAX_PAGES URLs were discovered, and
\* pageLimit MAX_PAGES.
C1_PageLimit ==
  /\ Len(discovered) <= MAX_PAGES
  /\ report.t = "report" =>
       /\ report.hitPageLimit = (Cardinality(Range(discovered)) >= MAX_PAGES)
       /\ report.pageLimit = MAX_PAGES

\* C1: a crawl that filled discovered to the limit, on a site where a link
\* was refused for it, has reported.
C1_Witness ==
  /\ report.t = "report"
  /\ report.hitPageLimit
  /\ Len(discovered) = MAX_PAGES
  /\ Cardinality(Reachable) > MAX_PAGES

\* C2: every member of discovered is on the base domain and passes the
\* skip filter, the start URL included.
C2_DiscoveredInScope ==
  \A i \in 1..Len(discovered) :
    isSameDomain(discovered[i], baseDomain) /\ ~shouldSkipUrl(discovered[i])

\* What results[i] holds when fn did o on items[i].
Expected(o) ==
  CASE o.t = "return" -> o.v
    [] o.t = "throw" -> ErrorEntry(o.thrown.message)
    [] OTHER -> EmptySlot

\* C3: in a call with limit >= 1 a throw of fn never ends the call, and on
\* return results[i] holds what fn did on items[i], for every i: the value
\* returned, or {error: message} for what it threw.
C3_OrderAndIsolation ==
  limit >= 1 =>
    /\ rpc # "rejected"
    /\ \A w \in 1..Len(workers) : workers[w].pc # "crashed"
    /\ rpc = "returned" =>
         \A i \in 1..Len(items) : fnLog[i].t # "none" /\ results[i] = Expected(fnLog[i])

\* C4 as claimed: on return fn has been called exactly once on every item,
\* for every limit.
C4_ExactlyOnceAnyLimit ==
  rpc = "returned" => \A i \in 1..Len(items) : calls[i] = 1

\* C4 as amended: no index is ever claimed twice, and for every limit >= 1
\* fn has been called exactly once on every item when the call returns.
C4_ExactlyOnce ==
  /\ \A i \in 1..Len(items) : calls[i] <= 1
  /\ (rpc = "returned" /\ limit >= 1) => \A i \in 1..Len(items) : calls[i] = 1

\* C4: a call with fewer workers than items has returned.
C4_Witness ==
  /\ rpc = "returned"
  /\ limit >= 1
  /\ Len(items) > limit
  /\ \A i \in 1..Len(items) : calls[i] = 1

\* C5: at most min(limit, items.length) calls of fn are in flight, at most
\* CONCURRENCY audits in a crawl, and at most CONCURRENCY fetches of a
\* discovery batch.
C5_InFlightBounded ==
  /\ Cardinality(InFlight) <= Min(limit, Len(items))
  /\ cpc # "none" => Cardinality(InFlight) <= CONCURRENCY
  /\ Cardinality(PendingFetches) <= CONCURRENCY

\* C5: a crawl with more pages than workers has CONCURRENCY audits in
\* flight.
C5_Witness ==
  /\ cpc = "auditing"
  /\ Len(items) > CONCURRENCY
  /\ Cardinality(InFlight) = CONCURRENCY

\* C6: normalizeUrl applied to its own result of a parseable URL changes
\* nothing.
C6_Idempotent ==
  (CanParse(nin) /\ Len(nout) = 2) => nout[2] = nout[1]

\* C7: when discovery ends with fewer than MAX_PAGES URLs, the discovered
\* URLs are exactly the reachable ones, each has been visited, and each is
\* on the base domain.
C7_ExactlyReachable ==
  (DiscoveryOver /\ Len(allUrls) < MAX_PAGES) =>
    /\ Range(allUrls) = Reachable
    /\ Range(allUrls) \subseteq visited
    /\ \A u \in Range(allUrls) : isSameDomain(u, baseDomain)

\* C8: when more than MAX_PAGES URLs are reachable, a report has
\* totalPages = MAX_PAGES and hitPageLimit true.
C8_LimitReached ==
  (report.t = "report" /\ Cardinality(Reachable) > MAX_PAGES) =>
    /\ report.totalPages = MAX_PAGES
    /\ report.hitPageLimit

\* C9: once the probe has failed, crawlSite has returned {error}, and no
\* discovery fetch and no audit call is ever made.
C9_ProbeFailureStops ==
  probe \in {"non2xx", "abort", "neterr"} =>
    /\ cpc = "done"
    /\ report.t = "error"
    /\ nFetch = 0
    /\ nAudit = 0
    /\ rpc = "idle"

\* C9: the probe has timed out.
C9_Witness == probe = "abort" /\ cpc = "done" /\ report.t = "error"

\* The audit of allUrls[i] threw or returned {error}.
AuditFailed(i) ==
  \/ fnLog[i].t = "throw"
  \/ fnLog[i].t = "return" /\ fnLog[i].v.error # Undefined

\* C10: whatever the audits threw or returned, crawlSite does not reject,
\* and in its report each failed page is once in errors and not in pages,
\* failedPages counts them, and the aggregates are those of the other
\* pages.
C10_AuditFailuresIsolated ==
  /\ cpc # "rejected"
  /\ report.t = "report" =>
       LET failed == {i \in 1..Len(allUrls) : AuditFailed(i)}
           okPages == SelectSeq([i \in 1..Len(allUrls) |-> fnLog[i].v],
                                LAMBDA p : p.t = "object" /\ p.error = Undefined)
       IN /\ report.failedPages = Cardinality(failed)
          /\ \A i \in failed :
               /\ Cardinality({k \in 1..Len(report.errors) :
                                 report.errors[k].url = allUrls[i]}) = 1
               /\ \A k \in 1..Len(report.pages) : report.pages[k].url # allUrls[i]
          /\ report.siteScore = aggregateSiteResults(okPages).siteScore
          /\ report.siteCounts = aggregateSiteResults(okPages).siteCounts


\* The pages of aggIn the aggregator is to count: those without an error.
AggSuccessful == SelectSeq(aggIn, LAMBDA p : p.error \in {Undefined, ""})

\* aggregateSiteResults has returned.
Aggregated == Len(aggOut) = 1

RECURSIVE SumOf(_, _)
SumOf(f, k) == IF k = 0 THEN 0 ELSE f[k] + SumOf(f, k - 1)

C12_EmptyAggregate ==
  (Aggregated /\ Len(AggSuccessful) = 0) =>
    /\ ~aggOut[1].threw
    /\ aggOut[1].siteScore = Num(0)
    /\ aggOut[1].siteCounts = Counts(0, 0, 0, 0)

\* C12: a list of failed pages only has been aggregated.
C12_Witness ==
  /\ Aggregated
  /\ Len(aggIn) = 2
  /\ Len(AggSuccessful) = 0
  /\ aggOut[1].siteScore = Num(0)

\* C13: healthy counts the pages of score >= 80, needsWork those of score
\* from 50 to 79, poor those of score < 50 and those of score null (which
\* JavaScript compares as 0), and the three add up to the number of
\* successful pages.
C13_HealthBuckets ==
  LET ok == AggSuccessful
      n == Len(ok)
      Numeric(i) == ok[i].score.tag = "number"
  IN (Aggregated /\ n > 0) =>
       LET hb == aggOut[1].healthBreakdown
       IN /\ hb.defined
          /\ hb.healthy = Cardinality({i \in 1..n : Numeric(i) /\ ok[i].score.n >= 80})
          /\ hb.needsWork = Cardinality({i \in 1..n : Numeric(i) /\ ok[i].score.n >= 50
                                                        /\ ok[i].score.n < 80})
          /\ hb.poor = Cardinality({i \in 1..n : Numeric(i) /\ ok[i].score.n < 50})
                       + Cardinality({i \in 1..n : ok[i].score.tag = "null"})
          /\ hb.healthy + hb.needsWork + hb.poor = n

\* C13: pages of score 80, 50 and 45 have been aggregated, one to a
\* bucket.
C13_Witness ==
  /\ Aggregated
  /\ {AggSuccessful[i].score : i \in 1..Len(AggSuccessful)} = {Num(80), Num(50), Num(45)}
  /\ aggOut[1].healthBreakdown = HB(1, 1, 1)


\* The types of the issues of the successful pages, page by page and
\* issue by issue.
RECURSIVE IssueTypes(_)
IssueTypes(pages) ==
  IF pages = <<>> THEN <<>>
  ELSE [k \in 1..Len(Head(pages).issues) |-> Head(pages).issues[k].type]
       \o IssueTypes(Tail(pages))

Occurrences(type) ==
  Cardinality({k \in 1..Len(IssueTypes(AggSuccessful)) : IssueTypes(AggSuccessful)[k] = type})

FirstSeen(type) ==
  CHOOSE k \in 1..Len(IssueTypes(AggSuccessful)) :
    /\ IssueTypes(AggSuccessful)[k] = type
    /\ \A j \in 1..(k - 1) : IssueTypes(AggSuccessful)[j] # type

\* Type a ranks before type b: it occurs more often, or as often and it
\* was met first.
RanksBefore(a, b) ==
  \/ Occurrences(a) > Occurrences(b)
  \/ Occurrences(a) = Occurrences(b) /\ FirstSeen(a) < FirstSeen(b)

\* C14: topIssues lists the issue types with their numbers of occurrences
\* over the successful pages, the five first of them by count descending
\* and, for equal counts, by first occurrence in the scan of the pages.
C14_TopIssues ==
  (Aggregated /\ Len(AggSuccessful) > 0) =>
    LET top == aggOut[1].topIssues
        types == Range(IssueTypes(AggSuccessful))
        listed == {top.list[i].type : i \in 1..Len(top.list)}
    IN /\ top.defined
       /\ Len(top.list) = Min(5, Cardinality(types))
       /\ \A i \in 1..Len(top.list) :
            /\ top.list[i].type \in types
            /\ top.list[i].count = Occurrences(top.list[i].type)
       /\ \A i, j \in 1..Len(top.list) :
            i < j => RanksBefore(top.list[i].type, top.list[j].type)
       /\ \A t \in types \ listed : \A u \in listed : RanksBefore(u, t)

\* C14: issues of more than five types have been counted, two listed
\* types have the same count, and so have a listed type and one cut off.
C14_Witness ==
  /\ Aggregated
  /\ Len(AggSuccessful) > 0
  /\ Cardinality(Range(IssueTypes(AggSuccessful))) > 5
  /\ Len(aggOut[1].topIssues.list) = 5
  /\ aggOut[1].topIssues.list[1].count = aggOut[1].topIssues.list[2].count
  /\ \E t \in Range(IssueTypes(AggSuccessful)) :
       /\ \A i \in 1..5 : aggOut[1].topIssues.list[i].type # t
       /\ Occurrences(t) = aggOut[1].topIssues.list[5].count


\* C15: of two progress events of the same phase the later one has no
\* smaller current, and no 'discovering' event comes after an 'auditing'
\* one.
C15_ProgressMonotone ==
  \A i, j \in 1..Len(events) :
    i < j =>
      /\ events[i].phase = events[j].phase => events[i].current <= events[j].current
      /\ events[i].phase = "auditing" => events[j].phase = "auditing"

\* C15: discovery has reported a growing count, and the second worker has
\* reported two audits while the first still awaits its first.
C15_Witness ==
  /\ \E i, j \in 1..Len(events) :
       /\ i < j
       /\ events[i].phase = "discovering" /\ events[j].phase = "discovering"
       /\ 0 < events[i].current /\ events[i].current < events[j].current
  /\ \E k \in 1..Len(events) : events[k].phase = "auditing" /\ events[k].current = 2
  /\ Len(workers) = 2
  /\ workers[1].pc = "await" /\ workers[1].current = 0

\* The 'auditing' progress events so far.
AuditingEvents == SelectSeq(events, LAMBDA e : e.phase = "auditing")

\* C16: after the event that opens the audit phase there is one
\* 'auditing' event for each audit call that has completed, returned or
\* thrown; the k-th has current = k and each has total = the number of
\* discovered URLs; so when the runner returns the last one has
\* current = total.
C16_EventPerAudit ==
  rpc # "idle" =>
    /\ Len(AuditingEvents) = 1 + Cardinality({i \in 1..Len(items) : fnLog[i].t # "none"})
    /\ \A k \in 1..Len(AuditingEvents) :
         /\ AuditingEvents[k].current = k - 1
         /\ AuditingEvents[k].total = Len(allUrls)
    /\ rpc = "returned" =>
         AuditingEvents[Len(AuditingEvents)].current = Len(allUrls)

\* The events of the stream that end it.
Terminals == {i \in 1..Len(sent) : sent[i].type \in {"complete", "error"}}

\* What the stream carries is in order: at most one terminal event, it is
\* the last event, it is 'complete' with the report exactly when crawlSite
\* returned a report and 'error' with its message otherwise, the message
\* of what crawlSite threw being in it, and the stream is closed after it.
StreamInOrder ==
  /\ Cardinality(Terminals) <= 1
  /\ \A i \in Terminals :
       /\ i = Len(sent)
       /\ stream = "closed"
       /\ rtpc = "finished"
       /\ sent[i].type = "complete" <=> (cpc = "done" /\ report.t = "report")
       /\ sent[i].type = "complete" => sent[i].result = report
       /\ (cpc = "done" /\ report.t = "error") => sent[i].error = <<report.error>>
       /\ cpc = "rejected" =>
            sent[i].error = <<"Crawl failed unexpectedly.", CrawlRejection>>

\* C17 as claimed: the stream of every request is in order, and once the
\* route has finished it carries its terminal event.
C17_OneTerminalEvent ==
  /\ StreamInOrder
  /\ rtpc = "finished" => Cardinality(Terminals) = 1

\* C17 as amended: the stream of every request is in order, and once the
\* route has finished the stream of a client that is still connected
\* carries its terminal event; the stream of a client that has
\* disconnected carries none.
C17_OneTerminalEventIfConnected ==
  /\ StreamInOrder
  /\ (rtpc = "finished" /\ client = "connected") => Cardinality(Terminals) = 1
  /\ client = "gone" => Terminals = {}

\* C17: crawlSite threw, the route has sent the 'error' event after the
\* progress events and closed the stream, and an audit worker that still
\* ran has reported progress after that.
C17_Witness ==
  /\ cpc = "rejected"
  /\ rtpc = "finished"
  /\ client = "connected"
  /\ Len(sent) > 2
  /\ sent[Len(sent)].type = "error"
  /\ Len(events) >= Len(sent)


\* The crawl and its route have come to their end: crawlSite has settled,
\* the route has finished and no fetch and no audit is in flight.
CrawlOver ==
  /\ cpc \in {"done", "rejected"}
  /\ rtpc = "finished"
  /\ PendingFetches = {}
  /\ InFlight = {}

C19_NoTaskWrites ==
  \A w \in writes :
    w.var \in {"visited", "discovered", "queue", "auditedCount", "index"} => w.by = "loop"

\* C19 as amended: discovered and queue are written by the control loop
\* only, and only while no fetch of a batch is pending; the tasks of a
\* batch write visited, each before its fetch, as the batch starts; the
\* workers and their fn write index and auditedCount.
C19_LoopOwnsDiscoveredAndQueue ==
  /\ [](\A w \in writes :
          /\ w.var \in {"discovered", "queue"} => w.by = "loop"
          /\ w.by = "task" => w.var = "visited"
          /\ w.by \in {"worker", "fn"} => w.var \in {"index", "results", "auditedCount"})
  /\ [][(discovered' # discovered \/ queue' # queue) => PendingFetches = {}]_vars
  /\ [][visited' # visited => (cpc \in {"discoverInit", "loop"} /\ PendingFetches' # {})]_vars

\* C19: a batch of two fetches is pending, its tasks have marked their
\* URLs visited, and discovered and queue are as the loop left them.
C19_Witness ==
  /\ Cardinality(PendingFetches) = 2
  /\ [var |-> "visited", by |-> "task"] \in writes
  /\ [var |-> "discovered", by |-> "loop"] \in writes
  /\ \A i \in 1..Len(fetches) : fetches[i].url \in visited

\* Of two discovered URLs, the one discovered later has not had its batch
\* started unless the one discovered earlier has.
FifoOrder ==
  \A i, j \in 1..Len(discovered) :
    (i < j /\ discovered[j] \in visited) => discovered[i] \in visited

\* C20: discovered and queue change only when no fetch of a batch is
\* pending, URLs are fetched in the order of their discovery, and the list
\* returned is discovered in insertion order.
C20_BreadthFirst ==
  [][/\ (discovered' # discovered \/ queue' # queue) => PendingFetches = {}
     /\ FifoOrder'
     /\ allUrls' # allUrls => allUrls' = discovered]_vars


\* The fetch of u fails or times out, answers with another content type,
\* or ends after its redirects on another domain.
Broken(u) ==
  LET r == SiteResponse(site, u)
  IN r.kind # "html" \/ ~isSameDomain(r.final, baseDomain)

\* The tasks of a batch whose fetch was not broken.
SoundTasks(fs) == SelectSeq(fs, LAMBDA f : ~Broken(f.url))

\* C21: a discovery fetch that fails, times out, answers with a content
\* type that is not HTML or ends on another domain settles its task with
\* no link and changes nothing else; the merge that follows the batch adds
\* what the other tasks of the batch found, keeps the URLs still queued,
\* in their order, and discoverUrls goes on: it never rejects.
C21_BrokenPageContributesNothing ==
  /\ [][\A i \in 1..Len(fetches) :
          (/\ fetches[i].status = "pending"
           /\ Len(fetches') = Len(fetches)
           /\ fetches'[i].status = "fulfilled"
           /\ Broken(fetches[i].url))
          => /\ fetches'[i].links = <<>>
             /\ UNCHANGED <<visited, discovered, queue, cpc, report>>]_vars
  /\ [][(cpc = "batch" /\ cpc' # "batch")
        => LET d0 == [discovered |-> discovered, queue |-> queue]
               d == MergeFetches(d0, SoundTasks(fetches))
           IN /\ cpc' = "loop"
              /\ discovered' = d.discovered
              /\ queue' = d.queue
              /\ SubSeq(queue', 1, Len(queue)) = queue]_vars
  /\ [](probe = "ok" => (cpc = "rejected" => rpc # "idle"))

\* C21: discovery has returned after a batch of two broken fetches, one
\* of a page of another content type and one redirected to another
\* domain; the list holds the pages found before them.
C21_Witness ==
  /\ DiscoveryOver
  /\ Len(allUrls) = 3
  /\ \E u, v \in visited :
       /\ SiteResponse(site, u).kind = "nonhtml"
       /\ SiteResponse(site, v).kind = "html"
       /\ ~isSameDomain(SiteResponse(site, v).final, baseDomain)


\* C22: at every point of discovery visited is a subset of discovered,
\* visited never loses an element, and visited never holds more than
\* MAX_PAGES URLs, whatever the start URL.
C22_VisitedWithinDiscovered ==
  [][/\ visited' \subseteq Range(discovered')
     /\ visited \subseteq visited'
     /\ Cardinality(visited') <= MAX_PAGES]_vars


\* C23: discovery always terminates, on every site: each loop iteration
\* takes at least one URL off the queue, every batch comes to its end (each
\* fetch and each read of a body is cut off by the timeout), and
\* discoverUrls returns.
C23_DiscoveryTerminates ==
  /\ [][(cpc = "loop" /\ cpc' = "batch") => Len(queue') < Len(queue)]_vars
  /\ (cpc = "batch") ~> (cpc = "loop")
  /\ (probe = "ok") ~> DiscoveryOver


\* C24: every report crawlSite returns has a healthBreakdown with its
\* three counters and a topIssues list; when no page audit succeeded the
\* counters are 0 and the list is empty.
C24_ReportComplete ==
  report.t = "report" =>
    /\ report.healthBreakdown.defined
    /\ report.topIssues.defined
    /\ report.successfulPages = 0 =>
         /\ report.healthBreakdown = HB(0, 0, 0)
         /\ report.topIssues = Top(<<>>)


\* No URL is twice in the queue, and none is in it that a batch has taken
\* before.
EnqueuedOnce ==
  /\ \A i, j \in 1..Len(queue) : queue[i] = queue[j] => i = j
  /\ Range(queue) \cap visited = {}

\* C25: during discovery no URL is enqueued twice and none is fetched
\* twice, every queued URL is in discovered, no more than MAX_PAGES
\* fetches are made, and no task of a batch finds its URL visited.
C25_NoDuplicateWork ==
  [][/\ EnqueuedOnce'
     /\ nFetch' = Cardinality(visited')
     /\ Range(queue') \subseteq Range(discovered')
     /\ nFetch' <= MAX_PAGES
     /\ (cpc = "loop" /\ cpc' = "batch") =>
          \A i \in 1..Len(fetches') : ~AlreadyVisited(BatchOf(queue), i)]_vars


\* C26: from the first state of discovery on, discovered holds the
\* normalized start URL of discoverUrls; the list discovery returns is
\* never empty, and crawlSite never answers 'No pages found to crawl.'
C26_StartUrlDiscovered ==
  /\ (probe = "ok" /\ cpc # "discoverInit") =>
       normalizeUrl(DiscoverArg) \in Range(discovered)
  /\ DiscoveryOver => Len(allUrls) > 0
  /\ report.t = "error" => report.error # "No pages found to crawl."

\* C26: the page of the start URL gave no link, and the crawl has made
\* its report of the start URL alone.
C26_Witness ==
  /\ report.t = "report"
  /\ Broken(DiscoverArg)
  /\ allUrls = <<normalizeUrl(DiscoverArg)>>


\* The entries of a list of pages or errors that carry the URL u.
EntriesOf(list, u) == {k \in 1..Len(list) : list[k].url = u}

\* C27: in every report totalPages is successfulPages + failedPages, pages
\* has successfulPages entries and errors has failedPages entries, and
\* each discovered URL is in exactly one entry of pages or errors, whether
\* its audit returned a result, returned {error} or threw.
C27_ReportPartition ==
  report.t = "report" =>
    /\ report.totalPages = Len(allUrls)
    /\ report.totalPages = report.successfulPages + report.failedPages
    /\ Len(report.pages) = report.successfulPages
    /\ Len(report.errors) = report.failedPages
    /\ \A i \in 1..Len(allUrls) :
         Cardinality(EntriesOf(report.pages, allUrls[i]))
           + Cardinality(EntriesOf(report.errors, allUrls[i])) = 1

\* C27: a report of a crawl in which one audit returned a result, one
\* returned {error} and one threw.
C27_Witness ==
  /\ report.t = "report"
  /\ \E i, j, k \in 1..Len(allUrls) :
       /\ fnLog[i].t = "throw"
       /\ fnLog[j].t = "return" /\ fnLog[j].v.error # Undefined
       /\ fnLog[k].t = "return" /\ fnLog[k].v.error = Undefined
  /\ report.successfulPages > 0
  /\ report.failedPages = 2


\* C28: for every parseable URL u, normalizeUrl(u) is skipped exactly when
\* u is, and a page whose only link is to a skipped u gives no link.
C28_SkipSurvivesNormalize ==
  (CanParse(nin) /\ Len(nout) >= 1) =>
    /\ shouldSkipUrl(nout[1]) = shouldSkipUrl(nin)
    /\ shouldSkipUrl(nin) =>
         extractInternalLinks(<<nin>>, Abs(EX, <<"">>), EX) = <<>>


\* The score of a successful page as the claim counts it: null is 0.
ScoreOrZero(p) == IF p.score.tag = "null" THEN 0 ELSE p.score.n

RECURSIVE OneByOne(_, _, _, _)
OneByOne(d, b, vis, k) ==
  IF k = 0 THEN d
  ELSE LET before == OneByOne(d, b, vis, k - 1)
           seen == b[k] \in vis \/ \E j \in 1..(k - 1) : b[j] = b[k]
       IN IF seen THEN before
          ELSE MergeLinks(before, LinksOf(SiteResponse(site, b[k])))

\* The list a discovery gives that fetches one page at a time, each batch
\* in its order, from discovered and queue d with vis visited.
RECURSIVE InBatchOrder(_, _)
InBatchOrder(d, vis) ==
  IF ~LoopContinues(d.queue, d.discovered) THEN d.discovered
  ELSE LET b == BatchOf(d.queue)
           rest == [discovered |-> d.discovered, queue |-> RestOf(d.queue)]
       IN InBatchOrder(OneByOne(rest, b, vis, Len(b)), vis \cup Range(b))

\* What discovery returns for the start URL and the site, by the
\* responses of the site alone.
DiscoveredByResponses ==
  InBatchOrder([discovered |-> <<normalizeUrl(DiscoverArg)>>, queue |-> <<DiscoverArg>>], {})

IsPrefix(a, b) == Len(a) <= Len(b) /\ SubSeq(b, 1, Len(a)) = a

\* C30: the list discovery returns is fixed by the start URL and the
\* responses of the site, members and order, in whatever order the
\* fetches of each batch complete; at every point of discovery,
\* discovered is the beginning of that list.
C30_ScheduleIndependent ==
  /\ probe = "ok" => IsPrefix(discovered, DiscoveredByResponses)
  /\ DiscoveryOver => allUrls = DiscoveredByResponses

\* C30: discovery has returned after a batch of two fetches, completed
\* in either order, whose pages both link to pages not seen before; the
\* list holds the link of the first page of the batch, and the page limit
\* has kept the link of the second page out.
C30_Witness ==
  /\ DiscoveryOver
  /\ Len(allUrls) = MAX_PAGES
  /\ \E i \in 2..(MAX_PAGES - 1) :
       LET first == LinksOf(SiteResponse(site, allUrls[i]))
           second == LinksOf(SiteResponse(site, allUrls[i + 1]))
       IN /\ {allUrls[i], allUrls[i + 1]} \subseteq visited
          /\ first # <<>> /\ second # <<>>
          /\ Head(second) \notin Range(allUrls)
          /\ Head(first) \in Range(allUrls)
          /\ Head(first) \notin Range(SubSeq(allUrls, 1, i + 1))


=============================================================================
